---- MODULE Spec2Model ----
(***************************************************************************)
(* State-machine model of functions/main.py: the three HTTP handlers       *)
(* search_products, ingest_manual and chat_agent, and the pure helper      *)
(* clean_category_path.  Python strings that the code takes apart (the     *)
(* category path, the search query, the Content-Type header) are sequences *)
(* of one-character strings; strings the code only passes along or         *)
(* compares (titles, URLs, messages) are TLA+ strings.                     *)
(***************************************************************************)
EXTENDS Naturals, Sequences, FiniteSets, TLC

VARIABLES
    handler,      \* the function invoked: "none" before any invocation
    pc,           \* position inside the invocation
    api_key,      \* os.environ has a non-empty GEMINI_API_KEY
    req,          \* the request: its method, whether get_json yields an
                  \* object, and that object
    input_segs,   \* the segments the category path was written from
    cleaned,      \* what clean_category_path returned, called on its own
    resp,         \* the Response returned
    pdf_content,  \* which body is the PDF: "none", "page" or "iframe"
    tmp_file,     \* the temporary file: "none", "exists" or "unlinked"
    page,         \* the first fetch's answer: its Content-Type, and whether
                  \* the body holds an iframe with id mainFrame and a src
    state_name,   \* uploaded_file.state.name as last observed ("none" before)
    observed,     \* every state the file store reported, in order
    elapsed,      \* the poll loop's elapsed counter
    calls,        \* the external calls issued, in order
    raised,       \* the call whose exception reached the handler's except clause
    swallowed,    \* the calls whose exception was caught and passed over
    contents      \* the contents handed to generate_content

vars == <<handler, pc, api_key, req, input_segs, cleaned, resp, page, pdf_content,
          tmp_file, state_name, observed, elapsed, calls, raised, swallowed,
          contents>>

----------------------------------------------------------------------------
(* Bounds of the model *)

\* the longest category path, in segments
MaxSegs == 3

----------------------------------------------------------------------------
(* Python string operations, on sequences of characters *)

UpperChars == <<"A", "B", "C", "D", "E", "F", "G", "H", "I", "J", "K", "L", "M",
                "N", "O", "P", "Q", "R", "S", "T", "U", "V", "W", "X", "Y", "Z">>

LowerChars == <<"a", "b", "c", "d", "e", "f", "g", "h", "i", "j", "k", "l", "m",
                "n", "o", "p", "q", "r", "s", "t", "u", "v", "w", "x", "y", "z">>

\* str.lower() of one character
LowerChar(c) ==
    IF \E i \in 1..Len(UpperChars) : UpperChars[i] = c
    THEN LowerChars[CHOOSE i \in 1..Len(UpperChars) : UpperChars[i] = c]
    ELSE c

\* s.lower()
Lower(s) == [i \in 1..Len(s) |-> LowerChar(s[i])]

\* s[i-1:].startswith(p), i counted from 1
StartsWithAt(s, p, i) ==
    /\ i + Len(p) - 1 <= Len(s)
    /\ \A k \in 1..Len(p) : s[i + k - 1] = p[k]

\* p in s
Contains(p, s) == \E i \in 1..(Len(s) + 1) : StartsWithAt(s, p, i)

RECURSIVE SplitFrom(_, _, _, _)
SplitFrom(s, sep, i, cur) ==
    IF i > Len(s) THEN <<cur>>
    ELSE IF StartsWithAt(s, sep, i)
         THEN <<cur>> \o SplitFrom(s, sep, i + Len(sep), <<>>)
         ELSE SplitFrom(s, sep, i + 1, Append(cur, s[i]))

\* s.split(sep), sep not empty: leftmost occurrences, never overlapping
Split(s, sep) == SplitFrom(s, sep, 1, <<>>)

RECURSIVE Join(_, _)
\* sep.join(parts)
Join(sep, parts) ==
    IF Len(parts) = 0 THEN <<>>
    ELSE IF Len(parts) = 1 THEN parts[1]
    ELSE parts[1] \o sep \o Join(sep, Tail(parts))

RECURSIVE ReplaceFrom(_, _, _, _)
ReplaceFrom(s, old, new, i) ==
    IF i > Len(s) THEN <<>>
    ELSE IF StartsWithAt(s, old, i)
         THEN new \o ReplaceFrom(s, old, new, i + Len(old))
         ELSE <<s[i]>> \o ReplaceFrom(s, old, new, i + 1)

\* s.replace(old, new), old not empty
Replace(s, old, new) == ReplaceFrom(s, old, new, 1)

\* data.get(key, default)
Get(data, key, default) == IF key \in DOMAIN data THEN data[key] ELSE default

----------------------------------------------------------------------------
(* String constants of the source *)

ABB_LIBRARY_URL ==
    <<"h", "t", "t", "p", "s", ":", "/", "/", "l", "i", "b", "r", "a", "r", "y",
      ".", "a", "b", "b", ".", "c", "o", "m">>

SearchUrlPath ==
    <<"/", "r", "?", "c", "i", "d", "=", "p", "s", "c", "a", "t", "&", "l", "a",
      "n", "g", "=", "e", "n", "&", "q", "=">>

PathDelimiter == <<" ", ">", " ">>

Space == <<" ">>

PercentSpace == <<"%", "2", "0">>

generic_roots ==
    { <<"A", "B", "B", " ", "P", "r", "o", "d", "u", "c", "t", "s">>,
      <<"A", "l", "l", " ", "C", "a", "t", "e", "g", "o", "r", "i", "e", "s">>,
      <<"P", "r", "o", "d", "u", "c", "t", "s">> }

\* the test of the list comprehension: p not in generic_roots
KeepPartFold(p) == Lower(p) \notin { Lower(g) : g \in generic_roots }

KeepPart(p) == p \notin generic_roots

clean_category_path(full_path) ==
    LET parts == Split(full_path, PathDelimiter)
        filtered_parts == SelectSeq(parts, KeepPart)
    IN  Join(Space, filtered_parts)

----------------------------------------------------------------------------
(* search_products *)

DownloadUrl(document_id) ==
    "https://search.abb.com/library/Download.aspx?DocumentID=" \o document_id
        \o "&LanguageCode=en&Action=Launch"

Product(title, document_id) ==
    [title |-> title, download_url |-> DownloadUrl(document_id)]

\* The table in declaration order (a dict iterates in insertion order).  The
\* second rectifier title holds a mis-encoded dash in the source, written
\* here as a hyphen: it differs from every other title either way.
product_database ==
    << [keyword |-> <<"h", "p", "r">>,
        prods |-> << Product("High Power Rectifiers for primary aluminum smelting", "3BHS352574"),
                     Product("High power rectifiers - Product portfolio overview", "9AKK107492A3182"),
                     Product("High Power Rectifiers for Hydrogen Production", "9AKK107992A8938"),
                     Product("High Power Rectifiers for the Chlor-Alkali industry", "3BHS352575"),
                     Product("Service for high power rectifiers", "3BHS505186") >>],
       [keyword |-> <<"r", "e", "c", "t", "i", "f", "i", "e", "r">>,
        prods |-> << Product("MCR1000 Medium Current Rectifier", "3BHS546772E01"),
                     Product("Compact Rectifier - Water Cooled", "9AKK108467A6325"),
                     Product("Compact Rectifier CRW Series", "9AKK107046A7093"),
                     Product("Compact Rectifier CRA Series", "9AKK107046A7092") >>],
       [keyword |-> <<"m", "c", "r">>,
        prods |-> << Product("MCR1000 Medium Current Rectifier", "3BHS546772E01") >>],
       [keyword |-> <<"d", "r", "i", "v", "e">>,
        prods |-> << Product("ACS880 primary control program firmware manual", "3AUA0000085967"),
                     Product("ACS580 User Manual", "3AUA0000064448"),
                     Product("ACS380 Machinery Drive Manual", "3AUA0000117344") >>],
       [keyword |-> <<"r", "o", "b", "o", "t">>,
        prods |-> << Product("IRB 6700 Product Manual", "3HAC052982-001"),
                     Product("IRC5 Controller Product Manual", "3HAC050945-001") >>],
       [keyword |-> <<"m", "o", "t", "o", "r">>,
        prods |-> << Product("ABB Motors and Generators Catalog", "9AKK105713A8893"),
                     Product("Low voltage motors IEC Technical Catalog", "9AKK107045A4890") >>] >>

\* products[:10]
ProductLimit == 10

\* the inner loop's body without its seen_titles test
AppendAlways(acc, prod) ==
    [products |-> Append(acc.products, prod),
     seen_titles |-> acc.seen_titles \cup {prod.title}]

\* the inner loop's body: acc is <<products, seen_titles>>
AppendUnseen(acc, prod) ==
    IF prod.title \notin acc.seen_titles
    THEN [products |-> Append(acc.products, prod),
          seen_titles |-> acc.seen_titles \cup {prod.title}]
    ELSE acc

RECURSIVE ScanProds(_, _)
\* for prod in prods
ScanProds(acc, prods) ==
    IF Len(prods) = 0 THEN acc
    ELSE ScanProds(AppendUnseen(acc, Head(prods)), Tail(prods))

RECURSIVE ScanAllKeywords(_, _, _)
\* the outer loop without its `keyword in query_lower` test
ScanAllKeywords(acc, k, query_lower) ==
    IF k > Len(product_database) THEN acc
    ELSE ScanAllKeywords(ScanProds(acc, product_database[k].prods), k + 1, query_lower)

RECURSIVE ScanKeywords(_, _, _)
\* for keyword, prods in product_database.items(), from the k-th item on
ScanKeywords(acc, k, query_lower) ==
    IF k > Len(product_database) THEN acc
    ELSE LET item == product_database[k]
         IN  IF Contains(item.keyword, query_lower)
             THEN ScanKeywords(ScanProds(acc, item.prods), k + 1, query_lower)
             ELSE ScanKeywords(acc, k + 1, query_lower)

\* the products list after the loop over the whole table
MatchProducts(query_lower) ==
    ScanKeywords([products |-> <<>>, seen_titles |-> {}], 1, query_lower).products

Truncate(products) ==
    SubSeq(products, 1, IF Len(products) < ProductLimit THEN Len(products) ELSE ProductLimit)

\* https_fn.Response(body, status=..., content_type=...)
Response(status, body) == [status |-> status, body |-> body]

\* str(e) of the exception the named call raised
ExceptionText(call) == "exception: " \o call

\* the except clause at the handler boundary
ErrorResponse(call) == Response(500, [error |-> ExceptionText(call)])

\* a JSON object with no key
EmptyObject == [k \in {} |-> ""]

search_products(method, json, data) ==
    IF method = "OPTIONS" THEN Response(204, "")
    ELSE IF ~json THEN ErrorResponse("get_json")
    ELSE LET full_path == Get(data, "full_path", <<>>)
         IN  IF full_path = <<>>
             THEN Response(400, [error |-> "Missing full_path parameter"])
             ELSE LET search_query == clean_category_path(full_path)
                      query_lower == Lower(search_query)
                      products == MatchProducts(query_lower)
                      search_url == ABB_LIBRARY_URL \o SearchUrlPath
                                        \o Replace(search_query, Space, PercentSpace)
                  IN  Response(200, [products |-> Truncate(products),
                                     query |-> search_query,
                                     search_url |-> search_url])

----------------------------------------------------------------------------
(* ingest_manual *)

\* max_wait, in seconds
max_wait == 120

wait_interval == 5

\* get_genai_client(): a client when the key is set, None otherwise
get_genai_client(key) == key

\* the Content-Type values a server answers with; "" when the header is absent
ContentTypes ==
    { <<"t", "e", "x", "t", "/", "h", "t", "m", "l">>,
      <<"t", "e", "x", "t", "/", "h", "t", "m", "l", ";", " ", "c", "h", "a", "r",
        "s", "e", "t", "=", "u", "t", "f", "-", "8">>,
      <<"a", "p", "p", "l", "i", "c", "a", "t", "i", "o", "n", "/", "p", "d", "f">>,
      <<>> }

\* 'text/html' in content_type
IsHtml(content_type) ==
    Contains(<<"t", "e", "x", "t", "/", "h", "t", "m", "l">>, content_type)

\* the states the file store reports for a handle
FileStates == {"PROCESSING", "ACTIVE", "FAILED"}

\* the uploaded handle's uri and name, chosen by the file store
FileUri == "https://generativelanguage.googleapis.com/v1beta/files/manual1"

FileName == "files/manual1"

\* the while condition with the ceiling itself still admitted
PollGuardInclusive(state, waited) == state = "PROCESSING" /\ waited <= max_wait

\* the while condition of the poll loop
PollGuard(state, waited) == state = "PROCESSING" /\ waited < max_wait

\* the test before the success response, taking any state that left PROCESSING
IsReadyLeftProcessing(state) == state # "PROCESSING"

\* uploaded_file.state.name != "ACTIVE", negated
IsReady(state) == state = "ACTIVE"

\* the response after the poll loop
FinalResponse(state) ==
    IF ~IsReady(state)
    THEN Response(500, [error |-> "File processing failed: " \o state])
    ELSE Response(200, [file_uri |-> FileUri, file_name |-> FileName,
                        status |-> "success"])

\* the first lines with the required field tested for its key only
PreambleKeyOnly(method, key, json, data, field) ==
    IF method = "OPTIONS" THEN Response(204, "")
    ELSE IF ~get_genai_client(key)
    THEN Response(500, [error |-> "Gemini API key not configured"])
    ELSE IF ~json THEN ErrorResponse("get_json")
    ELSE IF field \notin DOMAIN data
    THEN Response(400, [error |-> "Missing " \o field \o " parameter"])
    ELSE Response(0, "go on")

\* what the first lines of ingest_manual and chat_agent return, "go on" when
\* they return nothing: the OPTIONS test, then the client test, then get_json
\* and the required field
Preamble(method, key, json, data, field) ==
    IF method = "OPTIONS" THEN Response(204, "")
    ELSE IF ~get_genai_client(key)
    THEN Response(500, [error |-> "Gemini API key not configured"])
    ELSE IF ~json THEN ErrorResponse("get_json")
    ELSE IF Get(data, field, "") = ""
    THEN Response(400, [error |-> "Missing " \o field \o " parameter"])
    ELSE Response(0, "go on")

----------------------------------------------------------------------------
(* chat_agent *)

\* types.Part.from_uri(file_uri=..., mime_type="application/pdf")
FilePart(file_uri) == [file_uri |-> file_uri, mime_type |-> "application/pdf"]

\* the test before the file part with `or` for `and`
WantsFilePartEither(file_name, file_uri) == file_name # "" \/ file_uri # ""

\* if file_name and file_uri
WantsFilePart(file_name, file_uri) == file_name # "" /\ file_uri # ""

\* contents as built before generate_content; part_ok: from_uri did not raise
BuildContents(data, part_ok) ==
    LET user_message == Get(data, "user_message", "")
        file_uri == Get(data, "file_uri", "")
        file_name == Get(data, "file_name", "")
    IN  (IF WantsFilePart(file_name, file_uri) /\ part_ok
         THEN <<FilePart(file_uri)>> ELSE <<>>) \o <<user_message>>

----------------------------------------------------------------------------
(* Requests *)

\* the restriction of a record to the keys in S: a JSON object with those keys
Restrict(r, S) == [k \in S |-> r[k]]

Methods == {"OPTIONS", "POST"}

\* the segments category paths are written from: the three generic roots, one
\* of them in another case, and names that hold the table's keywords
Segments ==
    { <<"A", "B", "B", " ", "P", "r", "o", "d", "u", "c", "t", "s">>,
      <<"A", "l", "l", " ", "C", "a", "t", "e", "g", "o", "r", "i", "e", "s">>,
      <<"P", "r", "o", "d", "u", "c", "t", "s">>,
      <<"p", "r", "o", "d", "u", "c", "t", "s">>,
      <<"H", "P", "R">>,
      <<"R", "e", "c", "t", "i", "f", "i", "e", "r">>,
      <<"M", "C", "R">>,
      <<"D", "r", "i", "v", "e">>,
      <<"R", "o", "b", "o", "t", " ", "M", "o", "t", "o", "r", "s">> }

\* the paths of at most MaxSegs segments, as their segments
SegLists == UNION { [1..n -> Segments] : n \in 0..MaxSegs }

IngestBodies ==
    { Restrict([download_url |-> u], S) :
        u \in {"", "https://search.abb.com/library/Download.aspx?DocumentID=3BHS352574"},
        S \in SUBSET {"download_url"} }

ChatBodies ==
    { Restrict([user_message |-> m, file_uri |-> FileUri, file_name |-> FileName], S) :
        m \in {"", "How do I reset the drive?"},
        S \in SUBSET {"user_message", "file_uri", "file_name"} }

NoResponse == Response(0, "")

----------------------------------------------------------------------------
(* The state machine *)

Init ==
    /\ handler = "none"
    /\ pc = "idle"
    /\ api_key \in BOOLEAN
    /\ req = [method |-> "", json |-> FALSE, data |-> EmptyObject]
    /\ input_segs = <<>>
    /\ cleaned = <<>>
    /\ resp = NoResponse
    /\ pdf_content = "none"
    /\ tmp_file = "none"
    /\ state_name = "none"
    /\ observed = <<>>
    /\ page = [content_type |-> <<>>, iframe_src |-> FALSE]
    /\ elapsed = 0
    /\ calls = <<>>
    /\ raised = "none"
    /\ swallowed = {}
    /\ contents = <<>>

\* clean_category_path called on the path written from segs
CleanCategoryPath ==
    /\ pc = "idle"
    /\ \E segs \in SegLists :
        /\ input_segs' = segs
        /\ cleaned' = clean_category_path(Join(PathDelimiter, segs))
    /\ handler' = "clean_category_path"
    /\ pc' = "done"
    /\ UNCHANGED <<api_key, req, resp, page, pdf_content, tmp_file, state_name,
                   observed, elapsed, calls, raised, swallowed, contents>>

\* one invocation of search_products
SearchProducts ==
    /\ pc = "idle"
    /\ \E method \in Methods, json \in BOOLEAN, segs \in SegLists,
          keys \in SUBSET {"full_path"} :
        LET data == Restrict([full_path |-> Join(PathDelimiter, segs)], keys)
        IN  /\ (method = "OPTIONS" => ~json)
            /\ (~json => keys = {} /\ segs = <<>>)
            /\ (keys = {} => segs = <<>>)
            /\ req' = [method |-> method, json |-> json, data |-> data]
            /\ input_segs' = segs
            /\ resp' = search_products(method, json, data)
            /\ raised' = IF method # "OPTIONS" /\ ~json THEN "get_json" ELSE "none"
    /\ handler' = "search_products"
    /\ pc' = "done"
    /\ UNCHANGED <<api_key, cleaned, page, pdf_content, tmp_file, state_name,
                   observed, elapsed, calls, swallowed, contents>>

\* the finally clause: os.unlink(tmp_path) if the file exists
Cleanup(file) == IF file = "exists" THEN "unlinked" ELSE file

\* the failed call issued once more instead of ending the invocation
RaiseAndRetry(call, in_try) ==
    /\ raised' = call
    /\ tmp_file' = IF in_try THEN Cleanup(tmp_file) ELSE tmp_file
    /\ UNCHANGED <<resp, pc>>

\* an exception reaches the handler's except clause; in_try: it was raised
\* inside the try whose finally removes the temporary file
Raise(call, in_try) ==
    /\ raised' = call
    /\ resp' = ErrorResponse(call)
    /\ tmp_file' = IF in_try THEN Cleanup(tmp_file) ELSE tmp_file
    /\ pc' = "done"

\* ingest_manual up to its first network call
IngestBegin ==
    /\ pc = "idle"
    /\ \E method \in Methods, json \in BOOLEAN, data \in IngestBodies :
        LET early == Preamble(method, api_key, json, data, "download_url")
        IN  /\ (method = "OPTIONS" => ~json)
            /\ (~json => data = EmptyObject)
            /\ req' = [method |-> method, json |-> json, data |-> data]
            /\ IF early = Response(0, "go on")
               THEN /\ pc' = "fetch_page"
                    /\ UNCHANGED <<resp, raised>>
               ELSE /\ pc' = "done"
                    /\ resp' = early
                    /\ raised' = IF early = ErrorResponse("get_json")
                                 THEN "get_json" ELSE "none"
    /\ handler' = "ingest_manual"
    /\ UNCHANGED <<api_key, input_segs, cleaned, page, pdf_content, tmp_file,
                   state_name, observed, elapsed, calls, swallowed, contents>>

\* the branch on the Content-Type with a page that lacks the iframe taken
\* for the PDF itself
ClassifyFallBack(content_type, iframe_src) ==
    IF IsHtml(content_type) /\ iframe_src THEN "fetch_iframe" ELSE "write_tmp"

\* the branch on the Content-Type and the iframe: where the handler goes next
Classify(content_type, iframe_src) ==
    IF IsHtml(content_type)
    THEN IF iframe_src THEN "fetch_iframe" ELSE "done"
    ELSE "write_tmp"

\* requests.get(download_url), raise_for_status, and the classification
IngestFetchPage ==
    /\ pc = "fetch_page"
    /\ calls' = Append(calls, "get_page")
    /\ \/ /\ Raise("get_page", FALSE)
          /\ UNCHANGED <<page, pdf_content>>
       \/ \E content_type \in ContentTypes, iframe_src \in BOOLEAN :
            /\ page' = [content_type |-> content_type, iframe_src |-> iframe_src]
            /\ pc' = Classify(content_type, iframe_src)
            /\ pdf_content' = IF pc' = "write_tmp" THEN "page" ELSE pdf_content
            /\ resp' = IF pc' = "done"
                       THEN Response(500,
                              [error |-> "Could not find PDF URL in ABB library page"])
                       ELSE resp
            /\ UNCHANGED <<raised, tmp_file>>
    /\ UNCHANGED <<handler, api_key, req, input_segs, cleaned, state_name,
                   observed, elapsed, swallowed, contents>>

\* requests.get(actual_pdf_url) and raise_for_status
IngestFetchIframe ==
    /\ pc = "fetch_iframe"
    /\ calls' = Append(calls, "get_iframe")
    /\ \/ /\ Raise("get_iframe", FALSE)
          /\ UNCHANGED pdf_content
       \/ /\ pc' = "write_tmp"
          /\ pdf_content' = "iframe"
          /\ UNCHANGED <<resp, raised, tmp_file>>
    /\ UNCHANGED <<handler, api_key, req, input_segs, cleaned, page, state_name,
                   observed, elapsed, swallowed, contents>>

\* the with block: NamedTemporaryFile(delete=False) creates the file, write
\* fills it.  Both stand before the try whose finally unlinks the file.
IngestWriteTmp ==
    /\ pc = "write_tmp"
    /\ calls' = Append(calls, "write_tmp")
    /\ \/ Raise("NamedTemporaryFile", FALSE)
       \/ /\ raised' = "write"
          /\ resp' = ErrorResponse("write")
          /\ tmp_file' = "exists"
          /\ pc' = "done"
       \/ /\ tmp_file' = "exists"
          /\ pc' = "upload"
          /\ UNCHANGED <<resp, raised>>
    /\ UNCHANGED <<handler, api_key, req, input_segs, cleaned, page, pdf_content,
                   state_name, observed, elapsed, swallowed, contents>>

\* client.files.upload(file=tmp_path), and the loop's counters
IngestUpload ==
    /\ pc = "upload"
    /\ calls' = Append(calls, "upload")
    /\ \/ /\ Raise("upload", TRUE)
          /\ UNCHANGED <<state_name, observed, elapsed>>
       \/ /\ state_name' \in FileStates
          /\ observed' = Append(observed, state_name')
          /\ elapsed' = 0
          /\ pc' = "poll"
          /\ UNCHANGED <<resp, raised, tmp_file>>
    /\ UNCHANGED <<handler, api_key, req, input_segs, cleaned, page, pdf_content,
                   swallowed, contents>>

\* one turn of the while loop: sleep, count, client.files.get
IngestPoll ==
    /\ pc = "poll"
    /\ PollGuard(state_name, elapsed)
    /\ elapsed' = elapsed + wait_interval
    /\ calls' = Append(calls, "get")
    /\ \/ /\ Raise("get", TRUE)
          /\ UNCHANGED <<state_name, observed>>
       \/ /\ state_name' \in FileStates
          /\ observed' = Append(observed, state_name')
          /\ UNCHANGED <<resp, raised, tmp_file, pc>>
    /\ UNCHANGED <<handler, api_key, req, input_segs, cleaned, page, pdf_content,
                   swallowed, contents>>

\* after the loop: the response, and the finally clause
IngestFinish ==
    /\ pc = "poll"
    /\ ~PollGuard(state_name, elapsed)
    /\ resp' = FinalResponse(state_name)
    /\ tmp_file' = Cleanup(tmp_file)
    /\ pc' = "done"
    /\ UNCHANGED <<handler, api_key, req, input_segs, cleaned, page, pdf_content,
                   state_name, observed, elapsed, calls, raised, swallowed,
                   contents>>

\* one invocation of chat_agent
ChatAgent ==
    /\ pc = "idle"
    /\ \E method \in Methods, json \in BOOLEAN, data \in ChatBodies,
          part_ok \in BOOLEAN, generated \in BOOLEAN :
        LET early == Preamble(method, api_key, json, data, "user_message")
            tries_part == WantsFilePart(Get(data, "file_name", ""),
                                        Get(data, "file_uri", ""))
        IN  /\ (method = "OPTIONS" => ~json)
            /\ (~json => data = EmptyObject)
            /\ req' = [method |-> method, json |-> json, data |-> data]
            /\ IF early = Response(0, "go on")
               THEN /\ (~tries_part => part_ok)
                    /\ swallowed' = IF part_ok THEN {} ELSE {"from_uri"}
                    /\ contents' = BuildContents(data, part_ok)
                    /\ calls' = <<"generate_content">>
                    /\ IF generated
                       THEN /\ resp' = Response(200,
                                  [response |-> "reply text", status |-> "success"])
                            /\ raised' = "none"
                       ELSE /\ resp' = ErrorResponse("generate_content")
                            /\ raised' = "generate_content"
               ELSE /\ part_ok /\ generated
                    /\ resp' = early
                    /\ raised' = IF early = ErrorResponse("get_json")
                                 THEN "get_json" ELSE "none"
                    /\ UNCHANGED <<swallowed, contents, calls>>
    /\ handler' = "chat_agent"
    /\ pc' = "done"
    /\ UNCHANGED <<api_key, input_segs, cleaned, page, pdf_content, tmp_file,
                   state_name, observed, elapsed>>

Next ==
    \/ CleanCategoryPath
    \/ SearchProducts
    \/ IngestBegin
    \/ IngestFetchPage
    \/ IngestFetchIframe
    \/ IngestWriteTmp
    \/ IngestUpload
    \/ IngestPoll
    \/ IngestFinish
    \/ ChatAgent

Spec == Init /\ [][Next]_vars

TypeOK ==
    /\ handler \in {"none", "clean_category_path", "search_products",
                    "ingest_manual", "chat_agent"}
    /\ tmp_file \in {"none", "exists", "unlinked"}
    /\ elapsed \in 0..max_wait

----------------------------------------------------------------------------
(* Properties *)

IngestDone == handler = "ingest_manual" /\ pc = "done"

\* the number of client.files.get calls issued
StatusChecks == Cardinality({ i \in 1..Len(calls) : calls[i] = "get" })

\* how often the named call was issued
Issued(call) == Cardinality({ i \in 1..Len(calls) : calls[i] = call })

\* C1: whenever an ingest_manual invocation that created a temporary file has
\* returned its response, the file no longer exists, whichever way it ended.
C1_TmpFileGoneOnReturn == IngestDone => tmp_file # "exists"

\* C2: an ingest_manual invocation issues at most 24 status checks
\* (max_wait / wait_interval), whatever the file store reports, and when every
\* state it reported was PROCESSING the invocation ends with a 500 error.
C2_PollBounded ==
    /\ StatusChecks <= 24
    /\ StatusChecks <= max_wait \div wait_interval
    /\ (IngestDone /\ observed # <<>>
          /\ \A i \in 1..Len(observed) : observed[i] = "PROCESSING")
        => (resp.status = 500 /\ "error" \in DOMAIN resp.body)

C2_Witness ==
    /\ IngestDone
    /\ StatusChecks = 24
    /\ \A i \in 1..Len(observed) : observed[i] = "PROCESSING"
    /\ raised = "none"
    /\ resp = Response(500, [error |-> "File processing failed: PROCESSING"])

\* the required field of the handler invoked, and the value an absent one takes
RequiredField ==
    IF handler = "search_products" THEN "full_path"
    ELSE IF handler = "ingest_manual" THEN "download_url" ELSE "user_message"

EmptyValue == IF handler = "search_products" THEN <<>> ELSE ""

\* the request is not OPTIONS and its required field is missing or empty
\* (a body that carries no JSON object carries no field)
LacksRequiredField ==
    /\ handler \in {"search_products", "ingest_manual", "chat_agent"}
    /\ pc = "done"
    /\ req.method # "OPTIONS"
    /\ (~req.json \/ Get(req.data, RequiredField, EmptyValue) = EmptyValue)

MissingFieldResponse ==
    Response(400, [error |-> "Missing " \o RequiredField \o " parameter"])

\* C3 as stated: a non-OPTIONS request that lacks its required field is
\* answered 400 "Missing <field> parameter" in every state of the environment.
C3_Missing400Always == LacksRequiredField => resp = MissingFieldResponse

\* C3: a non-OPTIONS request whose body is a JSON object that lacks its
\* required field is answered 400 "Missing <field> parameter", by
\* ingest_manual and chat_agent only when the API key is set; without the key
\* these two answer 500 "Gemini API key not configured" whatever the body is,
\* and a body that carries no JSON object is answered 500 by the except clause.
C3_Missing400 ==
    LacksRequiredField =>
        IF handler # "search_products" /\ ~api_key
        THEN resp = Response(500, [error |-> "Gemini API key not configured"])
        ELSE IF ~req.json
        THEN resp = ErrorResponse("get_json")
        ELSE resp = MissingFieldResponse

C3_Witness ==
    /\ LacksRequiredField
    /\ handler = "ingest_manual"
    /\ req.json
    /\ "download_url" \in DOMAIN req.data
    /\ resp = Response(400, [error |-> "Missing download_url parameter"])

SuccessBody == [file_uri |-> FileUri, file_name |-> FileName, status |-> "success"]

\* C4 as stated: the success response is returned exactly when the last state
\* observed is ACTIVE, and any other last observed state gives a 500 error
\* whose message carries that state.
C4_SuccessIffActiveStateInMessage ==
    (IngestDone /\ observed # <<>>) =>
        IF state_name = "ACTIVE"
        THEN resp = Response(200, SuccessBody)
        ELSE resp = Response(500, [error |-> "File processing failed: " \o state_name])

\* C4: the success response is returned exactly when the last state observed
\* is ACTIVE; any other last observed state gives a 500 error without a
\* file_uri, whose message carries that state when the loop was left, and is
\* the exception's text when a status check raised.
C4_SuccessIffActive ==
    (IngestDone /\ observed # <<>>) =>
        /\ state_name = observed[Len(observed)]
        /\ IF state_name = "ACTIVE"
           THEN resp = Response(200, SuccessBody)
           ELSE IF raised = "none"
           THEN resp = Response(500, [error |-> "File processing failed: " \o state_name])
           ELSE raised = "get" /\ resp = ErrorResponse("get")

\* the loop was left after some status checks, on a state other than ACTIVE
C4_Witness ==
    /\ IngestDone
    /\ Len(observed) > 1
    /\ state_name = "FAILED"
    /\ resp = Response(500, [error |-> "File processing failed: FAILED"])

\* the first fetch answered with an HTML page that lacks the iframe
HtmlWithoutFrame ==
    /\ handler = "ingest_manual"
    /\ Issued("get_page") = 1
    /\ raised # "get_page"
    /\ page.content_type \in
         { <<"t", "e", "x", "t", "/", "h", "t", "m", "l">>,
           <<"t", "e", "x", "t", "/", "h", "t", "m", "l", ";", " ", "c", "h", "a",
             "r", "s", "e", "t", "=", "u", "t", "f", "-", "8">> }
    /\ ~page.iframe_src

\* C5: when the first fetch answers with an HTML content type and the page
\* has no iframe mainFrame with a src, the invocation ends with the 500
\* extraction error and has issued the first fetch only: no second fetch, no
\* temporary file, no upload, no status check.
C5_NoFrameNoUpload ==
    HtmlWithoutFrame =>
        /\ pc = "done"
        /\ resp = Response(500, [error |-> "Could not find PDF URL in ABB library page"])
        /\ calls = <<"get_page">>
        /\ tmp_file = "none"
        /\ pdf_content = "none"
        /\ observed = <<>>

C5_Witness ==
    /\ HtmlWithoutFrame
    /\ Len(page.content_type) > 9
    /\ resp.status = 500

\* search_products answered a request that carried a category path
SearchAnswered ==
    /\ handler = "search_products"
    /\ pc = "done"
    /\ req.method # "OPTIONS"
    /\ req.json
    /\ Get(req.data, "full_path", <<>>) # <<>>

\* the table read as one list, group after group
RECURSIVE FlatFrom(_)
FlatFrom(k) ==
    IF k > Len(product_database) THEN <<>>
    ELSE [i \in 1..Len(product_database[k].prods) |->
            [group |-> k, prod |-> product_database[k].prods[i]]] \o FlatFrom(k + 1)

Flat == FlatFrom(1)

\* the groups whose keyword stands in q
Hit(q) == { k \in 1..Len(product_database) : Contains(product_database[k].keyword, q) }

\* the places of the list that belong to these groups and hold a title no
\* earlier such place holds
FirstPlaces(hit) ==
    LET cand == { i \in 1..Len(Flat) : Flat[i].group \in hit }
    IN  { i \in cand : \A j \in cand : Flat[j].prod.title = Flat[i].prod.title => i <= j }

\* C6: the products returned are the first 10 of the matching entries taken
\* in table order, each title at its first place only: the n-th product is
\* the entry of the first place that has n-1 first places before it.  So no
\* title comes twice, there are at most 10, and there are 10 whenever more
\* than 10 titles match, whichever groups they come from.
C6_FirstTenInTableOrder ==
    SearchAnswered =>
        LET products == resp.body.products
            first == FirstPlaces(Hit(Lower(resp.body.query)))
        IN  /\ resp.status = 200
            /\ Len(products) <= 10
            /\ Len(products) = IF Cardinality(first) < 10 THEN Cardinality(first) ELSE 10
            /\ \A n \in 1..Len(products) :
                 \E i \in first :
                    /\ products[n] = Flat[i].prod
                    /\ Cardinality({ j \in first : j < i }) = n - 1
            /\ \A m, n \in 1..Len(products) :
                 m # n => products[m].title # products[n].title

\* twelve titles match (hpr, rectifier, drive) and ten are returned, the
\* tenth being the first of the drive group
C6_Witness ==
    /\ SearchAnswered
    /\ Cardinality(FirstPlaces(Hit(Lower(resp.body.query)))) = 12
    /\ Len(resp.body.products) = 10
    /\ resp.body.products[10].title = "ACS880 primary control program firmware manual"

\* the segments that are none of the three generic roots, in their order,
\* joined by single spaces
KeptSegments(segs) ==
    Join(<<" ">>,
         SelectSeq(segs, LAMBDA p :
            /\ p # <<"A", "B", "B", " ", "P", "r", "o", "d", "u", "c", "t", "s">>
            /\ p # <<"A", "l", "l", " ", "C", "a", "t", "e", "g", "o", "r", "i", "e", "s">>
            /\ p # <<"P", "r", "o", "d", "u", "c", "t", "s">>))

\* C7: clean_category_path returns the segments of the path that are not
\* exactly one of the three generic roots, in their order, joined by single
\* spaces; a path of generic roots only gives the empty string.  The same
\* holds of the query search_products reports.
C7_CleanKeepsOthersInOrder ==
    /\ handler = "clean_category_path" => cleaned = KeptSegments(input_segs)
    /\ SearchAnswered => resp.body.query = KeptSegments(input_segs)
    /\ (handler = "clean_category_path" /\ \A i \in 1..Len(input_segs) : input_segs[i] \in generic_roots)
         => cleaned = <<>>

\* a path with a generic root first, a lower-case "products" that is kept,
\* and a name after it
C7_Witness ==
    /\ handler = "clean_category_path"
    /\ Len(input_segs) = 3
    /\ input_segs[1] \in generic_roots
    /\ cleaned = <<"p", "r", "o", "d", "u", "c", "t", "s", " ", "M", "C", "R">>

\* chat_agent got a message and a key, and no usable file reference
ChatWithoutFile ==
    /\ handler = "chat_agent"
    /\ pc = "done"
    /\ req.method # "OPTIONS"
    /\ req.json
    /\ api_key
    /\ Get(req.data, "user_message", "") # ""
    /\ \/ Get(req.data, "file_uri", "") = ""
       \/ Get(req.data, "file_name", "") = ""
       \/ "from_uri" \in swallowed

\* C8: such a turn calls generate_content exactly once, with the user message
\* as the only content, and answers {response, status: "success"} when the
\* generation succeeds; only a failed generation makes it an error response.
C8_ChatWithoutFile ==
    ChatWithoutFile =>
        /\ calls = <<"generate_content">>
        /\ contents = <<req.data.user_message>>
        /\ raised \in {"none", "generate_content"}
        /\ raised = "none" =>
             resp = Response(200, [response |-> "reply text", status |-> "success"])
        /\ raised = "generate_content" => resp.status = 500

\* both file fields were sent and building the file part raised
C8_Witness ==
    /\ ChatWithoutFile
    /\ swallowed = {"from_uri"}
    /\ DOMAIN req.data = {"user_message", "file_uri", "file_name"}
    /\ contents = <<"How do I reset the drive?">>
    /\ resp.status = 200

\* the category path of the request yields a query that holds no keyword
NoKeywordSearch ==
    /\ SearchAnswered
    /\ \A k \in 1..Len(product_database) :
         ~Contains(product_database[k].keyword,
                   Lower(clean_category_path(req.data.full_path)))

SearchUrlOf(query) ==
    ABB_LIBRARY_URL \o SearchUrlPath \o Replace(query, <<" ">>, <<"%", "2", "0">>)

\* C9 as stated: the response has an empty entry list, a status field of
\* "success" and a populated search_url.
C9_EmptyListStatusSuccess ==
    NoKeywordSearch =>
        /\ resp.body.products = <<>>
        /\ "status" \in DOMAIN resp.body
        /\ resp.body.status = "success"
        /\ resp.body.search_url # <<>>

\* C9: the response is a 200 whose body holds an empty products list, the
\* query and a search_url made of the library's search address and the query
\* with its spaces percent-encoded; the body holds no status field.
C9_EmptyListHttp200 ==
    NoKeywordSearch =>
        /\ resp.status = 200
        /\ DOMAIN resp.body = {"products", "query", "search_url"}
        /\ resp.body.products = <<>>
        /\ resp.body.search_url # <<>>
        /\ resp.body.search_url = SearchUrlOf(resp.body.query)

\* a path whose query "products products" holds no keyword
C9_Witness ==
    /\ NoKeywordSearch
    /\ resp.body.query = <<"p", "r", "o", "d", "u", "c", "t", "s", " ",
                           "p", "r", "o", "d", "u", "c", "t", "s">>
    /\ resp.body.products = <<>>

\* the place of a call in the pipeline
Rank(call) ==
    IF call = "get_page" THEN 1
    ELSE IF call = "get_iframe" THEN 2
    ELSE IF call = "write_tmp" THEN 3
    ELSE IF call = "upload" THEN 4
    ELSE 5

\* the call that may be issued right after another
MayFollow(before, call) ==
    \/ before = "get_page" /\ call \in {"get_iframe", "write_tmp"}
    \/ before = "get_iframe" /\ call = "write_tmp"
    \/ before = "write_tmp" /\ call = "upload"
    \/ before \in {"upload", "get"} /\ call = "get"

C10_State ==
    handler = "ingest_manual" =>
        /\ Issued("get_page") <= 1
        /\ Issued("get_iframe") <= 1
        /\ Issued("write_tmp") <= 1
        /\ Issued("upload") <= 1
        /\ \A i, j \in 1..Len(calls) :
             i < j => \/ Rank(calls[i]) < Rank(calls[j])
                      \/ calls[i] = "get" /\ calls[j] = "get"
        /\ \A i \in 1..Len(calls) :
             IF i = 1 THEN calls[i] = "get_page" ELSE MayFollow(calls[i - 1], calls[i])
        /\ Issued("get_iframe") = 1 =>
             /\ page.iframe_src
             /\ Contains(<<"t", "e", "x", "t", "/", "h", "t", "m", "l">>, page.content_type)
        /\ (Issued("write_tmp") = 1 /\ Issued("get_iframe") = 0) =>
             ~Contains(<<"t", "e", "x", "t", "/", "h", "t", "m", "l">>, page.content_type)
        /\ raised # "none" =>
             /\ pc = "done"
             /\ resp.status = 500
             /\ DOMAIN resp.body = {"error"}

\* C10: in one ingest_manual invocation the first fetch, the second fetch,
\* the temporary write and the upload are issued at most once each, in that
\* order and followed only by status checks, the second fetch in the HTML
\* case only; once a call has raised no further call is issued and the
\* invocation has returned a 500 body with an error field.
C10_NoRetryFirstErrorEnds ==
    /\ []C10_State
    /\ [][(handler = "ingest_manual" /\ raised # "none") => calls' = calls]_vars

\* an upload that raised after both fetches and the temporary write
C10_Witness ==
    /\ IngestDone
    /\ raised = "upload"
    /\ calls = <<"get_page", "get_iframe", "write_tmp", "upload">>
    /\ resp.status = 500

====
